---- MODULE Spec2Model ----
(***************************************************************************)
(* Model of src/extension/node/extension_node.ts: the activation entry     *)
(* point of the Malloy extension.  The state is the module's state         *)
(* (client, the worker behind getWorker/setWorker), the part of the host   *)
(* the module reads and writes (workspace configuration, process.env, the  *)
(* configuration-change subscription), the asynchronous calls that are     *)
(* suspended on an await, each with the log of the calls it has made on    *)
(* the collaborators (connectionManager, connectionsTree, worker, client), *)
(* and the messages the worker has been sent.                              *)
(*                                                                         *)
(* JavaScript runs one job to completion: a handler, a continuation after  *)
(* an await, or deactivate can start only when no synchronous code of the  *)
(* module is on the stack (StackEmpty).                                    *)
(***************************************************************************)
EXTENDS Naturals, Sequences, FiniteSets

\* Bounds of the model.
MaxEvents == 2
MaxRequests == 2
MaxDeactivates == 1

VARIABLES
  pc,                  \* position of activate (lines 68-102)
  client,              \* module variable client (line 53) and the client's life cycle
  onReady,             \* the promise client.onReady() (line 152)
  onRequestHandlers,   \* handlers registered with client.onRequest (lines 154-172)
  worker,              \* what getWorker() returns (line 50)
  listenerRegistered,  \* the onDidChangeConfiguration subscription (lines 87-98)
  malloyConfig,        \* vscode.workspace.getConfiguration('malloy')
  cloudShellProject,   \* getConfiguration('cloudcode').get('cloudshell.project')
  env,                 \* process.env, the three cloud-shell variables
  handlers,            \* the invocations of the configuration-change handler
  deacts,              \* the invocations of deactivate
  requests,            \* the requests of the language server
  workerLog,           \* the messages sent to the worker, in order
  typeErrors           \* number of sends on an undefined getWorker()

vars == <<pc, client, onReady, onRequestHandlers, worker, listenerRegistered,
          malloyConfig, cloudShellProject, env, handlers, deacts, requests,
          workerLog, typeErrors>>

----------------------------------------------------------------------------
\* JavaScript values of a setting: a type tag and a printed value.
Undefined == [type |-> "undefined", v |-> "undefined"]
Str(s) == [type |-> "string", v |-> s]
Num(s) == [type |-> "number", v |-> s]

\* Values the setting cloudcode.cloudshell.project takes in the model:
\* absent, empty, two project names, and a value that is not a string.
ProjectValues == {Undefined, Str(""), Str("p1"), Str("p2"), Num("7")}

\* Values of the 'malloy' configuration section.
MalloyConfigs == {"m0", "m1"}

\* JavaScript truthiness and typeof, for the values above.
Truthy(x) ==
  CASE x.type = "undefined" -> FALSE
    [] x.type = "string" -> x.v # ""
    [] x.type = "number" -> x.v # "0"
    [] OTHER -> TRUE

TypeOf(x) == x.type

\* The three environment variables cloudshellEnv writes.
EnvVars == {"DEVSHELL_PROJECT_ID", "GOOGLE_CLOUD_PROJECT", "GOOGLE_CLOUD_QUOTA_PROJECT"}

\* An environment variable that is not set.
Unset == "<unset>"

\* Environments the extension host may start with.
InitialEnvs ==
  { [x \in EnvVars |-> Unset],
    [x \in EnvVars |-> IF x = "DEVSHELL_PROJECT_ID" THEN "old" ELSE Unset] }

\* Settings keys that a configuration-change event can name, as paths.
KeyMalloy == <<"malloy", "connections">>
KeyProject == <<"cloudcode", "cloudshell", "project">>
KeyCloudshell == <<"cloudshell", "project">>
KeyOther == <<"editor", "fontSize">>
Keys == {KeyMalloy, KeyProject, KeyCloudshell, KeyOther}

\* The sets of keys one event changes in the model.
EventKeys ==
  { {KeyMalloy}, {KeyProject}, {KeyCloudshell}, {KeyOther},
    {KeyMalloy, KeyCloudshell}, {KeyProject, KeyCloudshell} }

\* A section as a path.
Section(name) == <<name>>

IsPrefix(s, t) == Len(s) <= Len(t) /\ SubSeq(t, 1, Len(s)) = s

\* e.affectsConfiguration(section): some changed key lies in the section.
affectsConfiguration(e, section) ==
  \E k \in e.keys : IsPrefix(Section(section), k)

----------------------------------------------------------------------------
\* A message sent to the worker, with the invocation that sent it.
By(kind, id) == [kind |-> kind, id |-> id]
ExitMsg(by) == [type |-> "exit", config |-> "none", by |-> by]
ConfigMsg(c, by) == [type |-> "config", config |-> c, by |-> by]

\* No synchronous code of the module is running.
StackEmpty == pc \in {"loaded", "activated", "failed"}

\* cloudshellEnv (lines 57-66), as a function of the setting it reads and of
\* the environment it writes.
cloudshellEnv_noTypeCheck(project, e) ==
  IF Truthy(project)
    THEN [x \in EnvVars |-> project.v]
    ELSE e

cloudshellEnv(project, e) ==
  IF Truthy(project) /\ TypeOf(project) = "string"
    THEN [x \in EnvVars |-> project.v]
    ELSE e

\* sendWorkerConfig (lines 175-182): the worker's messages after
\* getWorker().send of the 'malloy' configuration read at the send.  On an
\* undefined worker the send throws and nothing is sent.
sendWorkerConfig_cached(w, wl, by) ==
  IF w = "undefined"
    THEN wl
    ELSE Append(wl, ConfigMsg(IF Len(wl) > 0 THEN wl[1].config ELSE malloyConfig, by))

sendWorkerConfig(w, wl, by) ==
  IF w = "undefined"
    THEN wl
    ELSE Append(wl, ConfigMsg(malloyConfig, by))

\* The TypeError of a send on an undefined getWorker().
Threw(w) == w = "undefined"

----------------------------------------------------------------------------
Init ==
  /\ pc = "loaded"
  /\ client = "undefined"
  /\ onReady = "none"
  /\ onRequestHandlers = {}
  /\ worker = "undefined"
  /\ listenerRegistered = FALSE
  /\ malloyConfig \in MalloyConfigs
  /\ cloudShellProject \in ProjectValues
  /\ env \in InitialEnvs
  /\ handlers = <<>>
  /\ deacts = <<>>
  /\ requests = <<>>
  /\ workerLog = <<>>
  /\ typeErrors = 0

\* activate, lines 69-98: the set-up of the views and commands, the first
\* cloudshellEnv() and the registration of the configuration listener.
ActivateRegister ==
  /\ pc = "loaded"
  /\ env' = cloudshellEnv(cloudShellProject, env)
  /\ listenerRegistered' = TRUE
  /\ pc' = "registered"
  /\ UNCHANGED <<client, onReady, onRequestHandlers, worker, malloyConfig,
                 cloudShellProject, handlers, deacts, requests, workerLog,
                 typeErrors>>

\* The request handlers setupLanguageServer registers (lines 154-172): the
\* fetch function each method's handler applies to event.uri.
Methods == {"malloy/fetchFile", "malloy/fetchBinaryFile", "malloy/fetchCellData"}

Handler(method, fn) == [method |-> method, fn |-> fn]

FetchHandlers_swapped ==
  { Handler("malloy/fetchFile", "fetchFile"),
    Handler("malloy/fetchBinaryFile", "fetchFile"),
    Handler("malloy/fetchCellData", "fetchCellData") }

FetchHandlers ==
  { Handler("malloy/fetchFile", "fetchFile"),
    Handler("malloy/fetchBinaryFile", "fetchBinaryFile"),
    Handler("malloy/fetchCellData", "fetchCellData") }

\* setupLanguageServer up to its await (lines 114-152), called by activate at
\* line 100: the client is constructed and started, and the function suspends
\* on client.onReady().
setupLanguageServer_noAwait ==
  /\ pc = "registered"
  /\ client' = "started"
  /\ onReady' = "pending"
  /\ onRequestHandlers' = FetchHandlers
  /\ pc' = "languageServer"
  /\ UNCHANGED <<worker, listenerRegistered, malloyConfig, cloudShellProject,
                 env, handlers, deacts, requests, workerLog, typeErrors>>

setupLanguageServer ==
  /\ pc = "registered"
  /\ client' = "started"
  /\ onReady' = "pending"
  /\ pc' = "languageServer"
  /\ UNCHANGED <<onRequestHandlers, worker, listenerRegistered, malloyConfig,
                 cloudShellProject, env, handlers, deacts, requests, workerLog,
                 typeErrors>>

\* setupLanguageServer after its await (lines 154-172): client.onReady() has
\* resolved and the three handlers are registered.
OnReadyResolved ==
  /\ StackEmpty
  /\ onReady = "pending"
  /\ onReady' = "resolved"
  /\ onRequestHandlers' = FetchHandlers
  /\ UNCHANGED <<pc, client, worker, listenerRegistered, malloyConfig,
                 cloudShellProject, env, handlers, deacts, requests, workerLog,
                 typeErrors>>

\* client.onReady() rejects: setupLanguageServer's promise rejects at line 152.
OnReadyRejected ==
  /\ StackEmpty
  /\ onReady = "pending"
  /\ onReady' = "rejected"
  /\ UNCHANGED <<pc, client, onRequestHandlers, worker, listenerRegistered,
                 malloyConfig, cloudShellProject, env, handlers, deacts,
                 requests, workerLog, typeErrors>>

\* setupWorker (lines 184-188), called by activate at line 101, after which
\* activate returns.
setupWorker_sendFirst ==
  /\ pc = "languageServer"
  /\ workerLog' = sendWorkerConfig(worker, workerLog, By("setupWorker", 0))
  /\ typeErrors' = IF Threw(worker) THEN typeErrors + 1 ELSE typeErrors
  /\ worker' = IF Threw(worker) THEN worker ELSE "connection"
  /\ pc' = IF Threw(worker) THEN "failed" ELSE "activated"
  /\ UNCHANGED <<client, onReady, onRequestHandlers, listenerRegistered,
                 malloyConfig, cloudShellProject, env, handlers, deacts, requests>>

setupWorker ==
  /\ pc = "languageServer"
  /\ worker' = "connection"
  /\ workerLog' = sendWorkerConfig(worker', workerLog, By("setupWorker", 0))
  /\ typeErrors' = IF Threw(worker') THEN typeErrors + 1 ELSE typeErrors
  /\ pc' = IF Threw(worker') THEN "failed" ELSE "activated"
  /\ UNCHANGED <<client, onReady, onRequestHandlers, listenerRegistered,
                 malloyConfig, cloudShellProject, env, handlers, deacts, requests>>

----------------------------------------------------------------------------
\* The configuration-change listener (lines 88-97) from its start to its await
\* or, when the event does not affect 'malloy', to its end.  It runs when the
\* host fires the event e, after the host has updated the configuration.
onDidChangeConfiguration_unconditional(e) ==
  /\ handlers' = Append(handlers, [keys |-> e.keys, state |-> "awaiting",
                                   log |-> <<"onConfigurationUpdated">>])
  /\ env' = cloudshellEnv(cloudShellProject', env)

onDidChangeConfiguration(e) ==
  IF affectsConfiguration(e, "malloy")
    THEN /\ handlers' = Append(handlers, [keys |-> e.keys, state |-> "awaiting",
                                          log |-> <<"onConfigurationUpdated">>])
         /\ env' = env
    ELSE IF affectsConfiguration(e, "cloudshell")
      THEN /\ handlers' = Append(handlers, [keys |-> e.keys, state |-> "done",
                                            log |-> <<"cloudshellEnv">>])
           /\ env' = cloudshellEnv(cloudShellProject', env)
      ELSE /\ handlers' = Append(handlers, [keys |-> e.keys, state |-> "done",
                                            log |-> <<>>])
           /\ env' = env

\* The host changes the settings named by keys and fires the event.
ConfigurationChanged(keys, m, p) ==
  /\ StackEmpty
  /\ listenerRegistered
  /\ Len(handlers) < MaxEvents
  /\ IF KeyMalloy \in keys THEN m # malloyConfig ELSE m = malloyConfig
  /\ IF KeyProject \in keys THEN p # cloudShellProject ELSE p = cloudShellProject
  /\ malloyConfig' = m
  /\ cloudShellProject' = p
  /\ onDidChangeConfiguration([keys |-> keys])
  /\ UNCHANGED <<pc, client, onReady, onRequestHandlers, worker,
                 listenerRegistered, deacts, requests, workerLog, typeErrors>>

\* The listener after its await (lines 90-96): connectionManager's
\* onConfigurationUpdated() of invocation i has resolved (ok) or rejected.
ConfigurationUpdated_ignoreReject(i, ok) ==
  /\ StackEmpty
  /\ handlers[i].state = "awaiting"
  /\ handlers' = [handlers EXCEPT ![i].state = "done",
                    ![i].log = @ \o <<IF ok THEN "resolved" ELSE "rejected",
                                      "connectionsTree.refresh", "worker.send">>]
  /\ workerLog' = sendWorkerConfig(worker, workerLog, By("handler", i))
  /\ UNCHANGED <<pc, client, onReady, onRequestHandlers, worker,
                 listenerRegistered, malloyConfig, cloudShellProject, deacts,
                 requests, env, typeErrors>>

ConfigurationUpdated(i, ok) ==
  LET h == handlers[i]
      e == [keys |-> h.keys]
  IN
  /\ StackEmpty
  /\ h.state = "awaiting"
  /\ IF ~ok
       THEN /\ handlers' = [handlers EXCEPT ![i].state = "rejected",
                                            ![i].log = @ \o <<"rejected">>]
            /\ UNCHANGED <<workerLog, env, typeErrors>>
       ELSE IF Threw(worker)
         THEN /\ handlers' = [handlers EXCEPT ![i].state = "rejected",
                                ![i].log = @ \o <<"resolved", "connectionsTree.refresh",
                                                  "TypeError">>]
              /\ typeErrors' = typeErrors + 1
              /\ UNCHANGED <<workerLog, env>>
         ELSE /\ workerLog' = sendWorkerConfig(worker, workerLog, By("handler", i))
              /\ typeErrors' = typeErrors
              /\ IF affectsConfiguration(e, "cloudshell")
                   THEN /\ env' = cloudshellEnv(cloudShellProject, env)
                        /\ handlers' = [handlers EXCEPT ![i].state = "done",
                                          ![i].log = @ \o <<"resolved", "connectionsTree.refresh",
                                                            "worker.send", "cloudshellEnv">>]
                   ELSE /\ env' = env
                        /\ handlers' = [handlers EXCEPT ![i].state = "done",
                                          ![i].log = @ \o <<"resolved", "connectionsTree.refresh",
                                                            "worker.send">>]
  /\ UNCHANGED <<pc, client, onReady, onRequestHandlers, worker,
                 listenerRegistered, malloyConfig, cloudShellProject, deacts,
                 requests>>

----------------------------------------------------------------------------
\* deactivate (lines 104-112) from its start to its await or, when there is
\* no client, to its end.  The host disposes context.subscriptions, and with
\* them the configuration listener pushed at line 87, when it deactivates
\* the extension.
deactivate ==
  LET by == By("deactivate", Len(deacts) + 1) IN
  /\ StackEmpty
  /\ Len(deacts) < MaxDeactivates
  /\ IF client # "undefined"
       THEN /\ deacts' = Append(deacts, [hadClient |-> TRUE, state |-> "stopping",
                                         worker |-> "notRead",
                                         log |-> <<"client.stop">>])
            /\ workerLog' = workerLog
       ELSE IF worker # "undefined"
         THEN /\ deacts' = Append(deacts, [hadClient |-> FALSE, state |-> "done",
                                           worker |-> worker,
                                           log |-> <<"worker.send">>])
              /\ workerLog' = Append(workerLog, ExitMsg(by))
         ELSE /\ deacts' = Append(deacts, [hadClient |-> FALSE, state |-> "done",
                                           worker |-> worker, log |-> <<>>])
              /\ workerLog' = workerLog
  /\ listenerRegistered' = FALSE
  /\ UNCHANGED <<pc, client, onReady, onRequestHandlers, worker, malloyConfig,
                 cloudShellProject, env, handlers, requests, typeErrors>>

\* deactivate after its await (lines 108-111): client.stop() of invocation j
\* has resolved (ok) or rejected.
ClientStopped_ignoreReject(j, ok) ==
  /\ StackEmpty
  /\ deacts[j].state = "stopping"
  /\ client' = "stopped"
  /\ deacts' = [deacts EXCEPT ![j].state = IF ok THEN "done" ELSE "rejected",
                  ![j].worker = worker,
                  ![j].log = @ \o <<IF ok THEN "resolved" ELSE "rejected", "worker.send">>]
  /\ workerLog' = Append(workerLog, ExitMsg(By("deactivate", j)))
  /\ UNCHANGED <<pc, onReady, onRequestHandlers, worker, listenerRegistered,
                 malloyConfig, cloudShellProject, env, handlers, requests,
                 typeErrors>>

ClientStopped(j, ok) ==
  /\ StackEmpty
  /\ deacts[j].state = "stopping"
  /\ IF ~ok
       THEN /\ client' = client
            /\ deacts' = [deacts EXCEPT ![j].state = "rejected",
                                        ![j].log = @ \o <<"rejected">>]
            /\ workerLog' = workerLog
       ELSE IF worker # "undefined"
         THEN /\ client' = "stopped"
              /\ deacts' = [deacts EXCEPT ![j].state = "done", ![j].worker = worker,
                                          ![j].log = @ \o <<"resolved", "worker.send">>]
              /\ workerLog' = Append(workerLog, ExitMsg(By("deactivate", j)))
         ELSE /\ client' = "stopped"
              /\ deacts' = [deacts EXCEPT ![j].state = "done", ![j].worker = worker,
                                          ![j].log = @ \o <<"resolved">>]
              /\ workerLog' = workerLog
  /\ UNCHANGED <<pc, onReady, onRequestHandlers, worker, listenerRegistered,
                 malloyConfig, cloudShellProject, env, handlers, requests,
                 typeErrors>>

----------------------------------------------------------------------------
\* Uris of the requests of the language server.
Uris == {"file:///a.malloy", "file:///b.malloy"}

\* The value fn returns for uri.
FetchResult(fn, uri) == [fn |-> fn, uri |-> uri]
NoResponse == [fn |-> "none", uri |-> "none"]

\* A request of the language server reaches the handler registered for its
\* method (lines 154-172), which calls its fetch function on event.uri and
\* suspends on it.
RequestReceived(h, uri) ==
  /\ StackEmpty
  /\ client = "started"
  /\ h \in onRequestHandlers
  /\ Len(requests) < MaxRequests
  /\ requests' = Append(requests, [method |-> h.method, uri |-> uri, fn |-> h.fn,
                                   arg |-> uri, state |-> "fetching",
                                   response |-> NoResponse])
  /\ UNCHANGED <<pc, client, onReady, onRequestHandlers, worker,
                 listenerRegistered, malloyConfig, cloudShellProject, env,
                 handlers, deacts, workerLog, typeErrors>>

\* The fetch of request r settles and the handler returns its result, which
\* the client sends as the response to r.
RequestAnswered(r) ==
  /\ StackEmpty
  /\ requests[r].state = "fetching"
  /\ requests' = [requests EXCEPT ![r].state = "answered",
                                  ![r].response = FetchResult(requests[r].fn, requests[r].arg)]
  /\ UNCHANGED <<pc, client, onReady, onRequestHandlers, worker,
                 listenerRegistered, malloyConfig, cloudShellProject, env,
                 handlers, deacts, workerLog, typeErrors>>

----------------------------------------------------------------------------
\* activate (lines 68-102), one synchronous job.
NextActivate ==
  \/ ActivateRegister
  \/ setupLanguageServer
  \/ setupWorker

\* The configuration-change listener.
NextConfiguration ==
  \/ \E keys \in EventKeys, m \in MalloyConfigs, p \in ProjectValues :
       ConfigurationChanged(keys, m, p)
  \/ \E i \in 1..Len(handlers), ok \in BOOLEAN : ConfigurationUpdated(i, ok)

\* deactivate.
NextDeactivate ==
  \/ deactivate
  \/ \E j \in 1..Len(deacts), ok \in BOOLEAN : ClientStopped(j, ok)

\* The language client and the requests of the language server.
NextLanguageServer ==
  \/ OnReadyResolved
  \/ OnReadyRejected
  \/ \E h \in onRequestHandlers, uri \in Uris : RequestReceived(h, uri)
  \/ \E r \in 1..Len(requests) : RequestAnswered(r)

Next ==
  \/ NextActivate
  \/ NextConfiguration
  \/ NextDeactivate
  \/ NextLanguageServer

Spec == Init /\ [][Next]_vars

\* The extension without the requests of the language server, which share no
\* state with the configuration listener and the worker.
NextExtension ==
  \/ NextActivate
  \/ NextConfiguration
  \/ NextDeactivate

ExtensionSpec == Init /\ [][NextExtension]_vars

\* The extension without configuration changes.
NextRelay ==
  \/ NextActivate
  \/ NextLanguageServer
  \/ NextDeactivate

RelaySpec == Init /\ [][NextRelay]_vars

----------------------------------------------------------------------------
\* Vocabulary of the properties.

\* The number of elements of the sequence q that satisfy Test.
Count(q, Test(_)) == Len(SelectSeq(q, Test))

\* The messages of a type that an invocation has sent to the worker.
SentBy(type, kind, id) ==
  LET Mine(msg) == msg.type = type /\ msg.by = By(kind, id)
  IN Count(workerLog, Mine)

AffectsMalloy(h) == \E k \in h.keys : k[1] = "malloy"
AffectsCloudshell(h) == \E k \in h.keys : k[1] = "cloudshell"

\* x occurs in the sequence q.
Occurs(x, q) == \E n \in 1..Len(q) : q[n] = x

\* The configuration-change handler i takes a step: it starts or it resumes.
HandlerSteps(i) ==
  /\ i \in 1..Len(handlers')
  /\ i > Len(handlers) \/ handlers'[i] # handlers[i]

\* The setting is a string that is not empty.
IsProjectName(x) == x.type = "string" /\ x.v # ""

----------------------------------------------------------------------------
\* C1: a configuration-change handler whose event affects 'malloy' calls
\* connectionManager.onConfigurationUpdated() first; while that call is
\* pending, and when it has rejected, the handler has neither refreshed the
\* tree nor sent anything to the worker; when it has resolved the handler has
\* refreshed the tree and then sent exactly one 'config' message, in that order.
C1_ForwardingOrder ==
  \A i \in 1..Len(handlers) :
    AffectsMalloy(handlers[i]) =>
      LET h == handlers[i] IN
      /\ h.log[1] = "onConfigurationUpdated"
      /\ h.state = "awaiting" =>
           /\ h.log = <<"onConfigurationUpdated">>
           /\ SentBy("config", "handler", i) = 0
      /\ h.state = "rejected" =>
           /\ h.log = <<"onConfigurationUpdated", "rejected">>
           /\ SentBy("config", "handler", i) = 0
      /\ h.state = "done" =>
           /\ SubSeq(h.log, 1, 4) = <<"onConfigurationUpdated", "resolved",
                                      "connectionsTree.refresh", "worker.send">>
           /\ Count(h.log, LAMBDA x : x = "worker.send") = 1
           /\ Count(h.log, LAMBDA x : x = "connectionsTree.refresh") = 1
           /\ SentBy("config", "handler", i) = 1

\* One handler has forwarded its event while the call of another has rejected.
C1_Witness ==
  \E i, j \in 1..Len(handlers) :
    /\ AffectsMalloy(handlers[i]) /\ handlers[i].state = "done"
    /\ AffectsMalloy(handlers[j]) /\ handlers[j].state = "rejected"

\* C2: when the last configuration-change event changed the setting
\* cloudcode.cloudshell.project to a project name and its handler has
\* finished, the three environment variables equal that project name.
C2_ProjectPropagated ==
  LET n == Len(handlers) IN
  ( /\ n > 0
    /\ handlers[n].state = "done"
    /\ KeyProject \in handlers[n].keys
    /\ IsProjectName(cloudShellProject) )
  => \A x \in EnvVars : env[x] = cloudShellProject.v

\* C3: a request is served by the fetch function of its own method, applied
\* to its own uri, and its response is that function's result for that uri,
\* whatever other requests are in flight.
FetchFunctionOf(method) ==
  CASE method = "malloy/fetchFile" -> "fetchFile"
    [] method = "malloy/fetchBinaryFile" -> "fetchBinaryFile"
    [] method = "malloy/fetchCellData" -> "fetchCellData"

C3_RelayRouting ==
  \A r \in 1..Len(requests) :
    LET q == requests[r] IN
    /\ q.fn = FetchFunctionOf(q.method)
    /\ q.arg = q.uri
    /\ q.state = "answered" =>
         q.response = [fn |-> FetchFunctionOf(q.method), uri |-> q.uri]
    /\ q.state = "fetching" => q.response = NoResponse

\* A later request of another method and uri is answered while an earlier
\* one is still in flight.
C3_Witness ==
  /\ Len(requests) = 2
  /\ requests[1].state = "fetching"
  /\ requests[2].state = "answered"
  /\ requests[1].uri # requests[2].uri
  /\ requests[1].method = "malloy/fetchFile"
  /\ requests[2].method = "malloy/fetchBinaryFile"

\* C4: every call of cloudshellEnv, in activate and in the handler, sets the
\* three variables to the setting when the setting is a non-empty string and
\* leaves the three of them as they were otherwise.
CloudshellEnvCalled ==
  \/ pc = "loaded" /\ pc' = "registered"
  \/ \E i \in 1..Len(handlers') :
       /\ HandlerSteps(i)
       /\ Occurs("cloudshellEnv", handlers'[i].log)

C4_CloudshellEnvResult ==
  [][CloudshellEnvCalled =>
       IF IsProjectName(cloudShellProject')
         THEN \A x \in EnvVars : env'[x] = cloudShellProject'.v
         ELSE env' = env]_vars

\* activate has called cloudshellEnv and the three variables carry the project
\* name of the setting.
C4_Witness ==
  /\ pc = "registered"
  /\ cloudShellProject = Str("p1")
  /\ \A x \in EnvVars : env[x] = "p1"

\* C5: every 'config' message carries the 'malloy' configuration as it is
\* when the message is sent; and when activate has returned, no handler is
\* suspended and no onConfigurationUpdated() has rejected, the last 'config'
\* message sent to the worker carries the current 'malloy' configuration.
IsConfigMsg(msg) == msg.type = "config"
ConfigLog == SelectSeq(workerLog, IsConfigMsg)

Quiescent ==
  /\ pc = "activated"
  /\ \A i \in 1..Len(handlers) : handlers[i].state = "done"

C5_ConfigFreshness ==
  /\ [](Quiescent =>
          /\ Len(ConfigLog) > 0
          /\ ConfigLog[Len(ConfigLog)].config = malloyConfig)
  /\ [][\A n \in 1..Len(workerLog') :
          (n > Len(workerLog) /\ workerLog'[n].type = "config")
            => workerLog'[n].config = malloyConfig']_vars

\* Two handlers overlapped, the one of the later event finished first, and
\* the configuration is no longer the one the extension started with.
C5_Witness ==
  /\ Quiescent
  /\ Len(handlers) = 2
  /\ AffectsMalloy(handlers[1]) /\ AffectsMalloy(handlers[2])
  /\ Len(ConfigLog) = 3
  /\ ConfigLog[2].by = By("handler", 2)
  /\ ConfigLog[3].by = By("handler", 1)

\* C6: request handlers are registered only when the client has been started
\* and client.onReady() has resolved, never while it is pending or after it
\* has rejected; and when activate returns, whatever the state of onReady,
\* the configuration listener is registered, the worker is set and the
\* worker has been sent exactly one message, the initial 'config'.
C6_RegistrationGated ==
  /\ [](/\ onRequestHandlers # {} => (client # "undefined" /\ onReady = "resolved")
        /\ onReady \in {"none", "pending", "rejected"} => onRequestHandlers = {}
        /\ onReady = "resolved" =>
             {h.method : h \in onRequestHandlers} = Methods)
  /\ [][(pc # "activated" /\ pc' = "activated") =>
          /\ listenerRegistered'
          /\ worker' # "undefined"
          /\ workerLog' = <<ConfigMsg(malloyConfig', By("setupWorker", 0))>>]_vars

\* activate has returned and the handlers were registered afterwards.
C6_Witness ==
  /\ pc = "activated"
  /\ onReady = "resolved"
  /\ Cardinality(onRequestHandlers) = 3
  /\ Len(workerLog) = 1

\* C7: a handler whose event does not affect 'malloy' never calls
\* onConfigurationUpdated, never refreshes the tree and never sends to the
\* worker; a step of a handler whose event does not affect 'cloudshell'
\* leaves the environment unchanged; a handler whose event affects neither
\* section ends at once and changes nothing but the record of its invocation.
C7_HandlerFrame ==
  /\ [](\A i \in 1..Len(handlers) :
          /\ ~AffectsMalloy(handlers[i]) =>
               /\ ~Occurs("onConfigurationUpdated", handlers[i].log)
               /\ ~Occurs("connectionsTree.refresh", handlers[i].log)
               /\ ~Occurs("worker.send", handlers[i].log)
               /\ SentBy("config", "handler", i) = 0
               /\ handlers[i].state = "done"
          /\ ~AffectsCloudshell(handlers[i]) =>
               ~Occurs("cloudshellEnv", handlers[i].log)
          /\ (~AffectsMalloy(handlers[i]) /\ ~AffectsCloudshell(handlers[i])) =>
               handlers[i].log = <<>>)
  /\ [][\A i \in 1..Len(handlers') :
          /\ (HandlerSteps(i) /\ ~AffectsCloudshell(handlers'[i])) => env' = env
          /\ (HandlerSteps(i) /\ ~AffectsMalloy(handlers'[i])) =>
               UNCHANGED <<workerLog, typeErrors>>
          /\ (HandlerSteps(i) /\ ~AffectsMalloy(handlers'[i])
                /\ ~AffectsCloudshell(handlers'[i])) =>
               UNCHANGED <<pc, client, onReady, onRequestHandlers, worker,
                           listenerRegistered, env, deacts, requests, workerLog,
                           typeErrors>>]_vars

\* Handlers have run for an event that affects neither section and for one
\* that affects only 'cloudshell', and the environment carries a project name.
C7_Witness ==
  \E i, j \in 1..Len(handlers) :
    /\ ~AffectsMalloy(handlers[i]) /\ ~AffectsCloudshell(handlers[i])
    /\ ~AffectsMalloy(handlers[j]) /\ AffectsCloudshell(handlers[j])
    /\ env["GOOGLE_CLOUD_PROJECT"] = "p1"

\* C8: an invocation of deactivate that found a client sends 'exit' only
\* after client.stop() has resolved, and sends nothing when it has rejected,
\* in which case deactivate rejects; an invocation that has finished has sent
\* exactly one 'exit' when it found a worker and none when it found no
\* worker; only deactivate sends 'exit'.
C8_ShutdownOrder ==
  /\ \A j \in 1..Len(deacts) :
       LET d == deacts[j] IN
       /\ d.state \in {"stopping", "done", "rejected"}
       /\ d.state = "stopping" =>
            d.hadClient /\ SentBy("exit", "deactivate", j) = 0
       /\ d.state = "rejected" =>
            /\ d.hadClient
            /\ d.log = <<"client.stop", "rejected">>
            /\ SentBy("exit", "deactivate", j) = 0
       /\ d.state = "done" =>
            /\ SentBy("exit", "deactivate", j) = IF d.worker # "undefined" THEN 1 ELSE 0
            /\ d.hadClient => SubSeq(d.log, 1, 2) = <<"client.stop", "resolved">>
       /\ ~d.hadClient => d.state = "done"
  /\ \A n \in 1..Len(workerLog) :
       workerLog[n].type = "exit" =>
         /\ workerLog[n].by.kind = "deactivate"
         /\ workerLog[n].by.id \in 1..Len(deacts)
         /\ deacts[workerLog[n].by.id].state = "done"

\* deactivate has stopped the client and then sent 'exit' to the worker.
C8_Witness ==
  \E j \in 1..Len(deacts) :
    /\ deacts[j].hadClient
    /\ deacts[j].state = "done"
    /\ SentBy("exit", "deactivate", j) = 1

\* C9: no 'config' message is sent to the worker after an 'exit' message.
C9_NoConfigAfterExit ==
  \A a, b \in 1..Len(workerLog) :
    (a < b /\ workerLog[a].type = "exit") => workerLog[b].type # "config"

\* C10: no send of sendWorkerConfig has found getWorker() undefined: the
\* worker is set whenever a message has been sent, and while activate has
\* registered the listener but not yet set the worker no handler has run.
C10_WorkerSetBeforeSend ==
  /\ typeErrors = 0
  /\ pc # "failed"
  /\ workerLog # <<>> => worker # "undefined"
  /\ worker = "undefined" => handlers = <<>>

\* A handler has sent the configuration to the worker set by activate.
C10_Witness ==
  /\ worker = "connection"
  /\ \E i \in 1..Len(handlers) : SentBy("config", "handler", i) = 1

====
